---- MODULE Spec2Model ----
(***************************************************************************)
(* A model of joulescope_ui.jls_v2: the JlsV2 adapter between the pyjls    *)
(* Reader (the decoder) and the pubsub registry.  The adapter's state is   *)
(* the decoder handle (_jls) and the name-to-record mapping (_signals);    *)
(* its operations are open, process and close.  The decoder, the registry  *)
(* and TimeMap appear at their call boundary only.                         *)
(*                                                                         *)
(* The module also models joulescope_ui.widgets.memory.memory_widget: the  *)
(* MemSet bar with its drag handle and the MemoryWidget that owns it,      *)
(* driven by the timer, by the buffer-size topic and by the mouse.         *)
(***************************************************************************)
EXTENDS Integers, Sequences, FiniteSets, TLC

VARIABLES
    jls,        \* self._jls: None, or Some(h) with h the index of a Reader in handles
    signals,    \* self._signals: UI signal name -> SignalRecord
    handles,    \* every Reader created so far: the file it read, and how often
                \* its close() was called
    adds,       \* the pubsub.topic_add calls of the latest open, in call order
    scans,      \* the jls.utc scans of the latest open: signal id and batches visited
    last,       \* the latest call on the adapter: operation, request, outcome,
                \* and the decoder calls (fsr, fsr_statistics, close) it made
    utc_scan,   \* one jls.utc scan in progress: the batches of the signal, the
                \* batches still to deliver, and utc_cbk's closure variables
    sizes,      \* MemSet.sizes: <<base, size, available, used>>, floats (in ticks)
    _drag,      \* MemSet._drag: None, or Some(copy of sizes at the press)
    _x_pos,     \* MemSet._x_pos: the handle's pixel, set by paintEvent
    _width,     \* MemSet._width: the pixel width of the bar, set by paintEvent
    _base,      \* MemoryWidget._base
    _size,      \* MemoryWidget._size
    subscribed, \* whether _on_size is subscribed to the buffer-size topic
    retained,   \* the retained value of the buffer-size topic
    pending,    \* topic values queued for delivery to _on_size
    event       \* the latest widget event: the handler and the calls it made

adapterVars == <<jls, signals, handles, adds, scans, last>>
widgetVars == <<sizes, _drag, _x_pos, _width, _base, _size, subscribed, retained,
                pending, event>>
vars == <<adapterVars, utc_scan, widgetVars>>

----------------------------------------------------------------------------
(* Python values.  None is the empty tuple and a present value v is <<v>>,  *)
(* so that an optional integer can be compared with None.                  *)

None == <<>>
Some(v) == <<v>>
Val(x) == x[1]

(* Python's // on integers: the floor of a / b for either sign of b.       *)
PyFloorDiv(a, b) ==
    IF b > 0 THEN a \div b ELSE (0 - a) \div (0 - b)

(* round(a / b) for b # 0, halves to the even neighbour (Python and numpy). *)
RoundDiv(a, b) ==
    LET n == IF b > 0 THEN a ELSE 0 - a
        d == IF b > 0 THEN b ELSE 0 - b
        q == n \div d
        r == n - q * d
    IN  IF 2 * r < d THEN q
        ELSE IF 2 * r > d THEN q + 1
        ELSE IF q % 2 = 0 THEN q ELSE q + 1

Last(s) == s[Len(s)]

(* ticks of a float per unit of size *)
FloatTicks == 2

(* the float that holds the whole number n *)
Whole(n) == n * FloatTicks

----------------------------------------------------------------------------
(* Bounds of the model.                                                    *)

\* time64.SECOND, the fixed time unit (ticks per second), scaled down: the
\* program's value is 2^30, and the arithmetic below is exact for any value.
SECOND == 8
\* request bounds: start and end range over -MaxCounter..MaxCounter
MaxCounter == 6
\* request lengths range over -1..MaxLength
MaxLength == 6
\* Readers created over the life of one adapter
MaxOpens == 3

----------------------------------------------------------------------------
(* The signal-name tables.                                                 *)

\* TO_JLS_SIGNAL_NAME as written, before _init(): short code -> long name
TO_JLS_SIGNAL_NAME_0 ==
    [k \in {"i", "v", "p", "r", "0", "1", "2", "3", "T"} |->
        CASE k = "i" -> "current"
          [] k = "v" -> "voltage"
          [] k = "p" -> "power"
          [] k = "r" -> "current_range"
          [] k = "0" -> "gpi[0]"
          [] k = "1" -> "gpi[1]"
          [] k = "2" -> "gpi[2]"
          [] k = "3" -> "gpi[3]"
          [] k = "T" -> "trigger_in"]

\* TO_UI_SIGNAL_NAME after _init(): every short code and every long name -> short code
TO_UI_SIGNAL_NAME ==
    LET keys == DOMAIN TO_JLS_SIGNAL_NAME_0
        values == {TO_JLS_SIGNAL_NAME_0[k] : k \in keys}
    IN  [n \in keys \cup values |->
            IF n \in keys THEN n
            ELSE CHOOSE k \in keys : TO_JLS_SIGNAL_NAME_0[k] = n]

----------------------------------------------------------------------------
(* The decoder's enumerations: what Reader(path) finds in the file.        *)
(* jls.sources and jls.signals are given in iteration order.  A UTC entry  *)
(* is <<sample counter, time>> (entries[k, 0] and entries[k, 1]), and the  *)
(* entries of a signal are delivered to the scan's callback in batches.    *)

Source(id, model, serial) ==
    [source_id |-> id, name |-> "src", vendor |-> "Jetperch", model |-> model,
     version |-> "1.0", serial_number |-> serial]

Signal(id, src, name, type, rate, dtype, len, utc) ==
    [signal_id |-> id, source_id |-> src, name |-> name, signal_type |-> type,
     sample_rate |-> rate, units |-> "A", data_type |-> dtype, length |-> len,
     utc |-> utc]

\* pyjls reserves source 0 and signal 0 for global annotations
Source0 == Source(0, "-", "-")
Signal0 == Signal(0, 0, "global_annotation_signal", "VSR", 0, "U8", 0, <<>>)

\* one source X1-001, one fixed-rate current signal, no UTC entries
FileNoUtc ==
    [sources |-> <<Source0, Source(1, "X1", "001")>>,
     signals |-> <<Signal0,
                   Signal(1, 1, "current", "FSR", 1000, "F32", 10000, <<>>)>>]

\* a single UTC entry (counter 0, time 1000000); an unsupported fixed-rate
\* signal that has UTC entries of its own
FileOneUtc ==
    [sources |-> <<Source0, Source(1, "X1", "001")>>,
     signals |-> <<Signal0,
                   Signal(1, 1, "i", "FSR", 1000, "F32", 10000,
                          << <<(<<0, 1000000>>)>> >>),
                   Signal(2, 1, "temperature", "FSR", 2, "F32", 4,
                          << <<(<<1, 8>>)>> >>)>>]

\* two batches of UTC entries with different counters; two entries that
\* share a counter; a supported signal that is not fixed-rate
FileTwoUtc ==
    [sources |-> <<Source0, Source(1, "X1", "002")>>,
     signals |-> <<Signal0,
                   Signal(1, 1, "v", "FSR", 2, "F32", 6,
                          << <<(<<2, 16>>)>>, <<(<<4, 24>>), (<<6, 32>>)>> >>),
                   Signal(2, 1, "power", "FSR", 4, "F32", 6,
                          << <<(<<3, 40>>), (<<3, 48>>)>> >>),
                   Signal(3, 1, "r", "VSR", 0, "U4", 2, <<>>)>>]

\* a short code and its long alias under one source, and two sources with
\* the same model and serial number
FileAlias ==
    [sources |-> <<Source0, Source(1, "X1", "001"), Source(2, "X1", "001")>>,
     signals |-> <<Signal0,
                   Signal(1, 1, "i", "FSR", 2, "F32", 4, <<>>),
                   Signal(2, 1, "current", "FSR", 4, "F32", 6, <<>>),
                   Signal(3, 2, "v", "FSR", 2, "F32", 4, <<>>)>>]

Files == {FileNoUtc, FileOneUtc, FileTwoUtc, FileAlias}

\* pyjls.data_type_as_str on the data types above
data_type_as_str(dtype) ==
    CASE dtype = "F32" -> "f32"
      [] dtype = "U8" -> "u8"
      [] dtype = "U4" -> "u4"

----------------------------------------------------------------------------
(* TimeMap: time = time_offset + (counter - counter_offset) / rate.  The   *)
(* rate is the exact fraction <<numerator, denominator>>.                  *)

\* TimeMap(): the identity-like defaults
TimeMap == [time_offset |-> 0, counter_offset |-> 0, rate |-> <<1, 1>>]

\* TimeMap.update(time_offset, counter_offset, rate): replaces all three fields
update(time_offset, counter_offset, rate) ==
    [time_offset |-> time_offset, counter_offset |-> counter_offset, rate |-> rate]

\* TimeMap.time64_to_counter(t)
time64_to_counter(tm, t) ==
    tm.counter_offset + RoundDiv((t - tm.time_offset) * tm.rate[1], tm.rate[2])

\* TimeMap.counter_to_time64(c)
counter_to_time64(tm, c) ==
    tm.time_offset + RoundDiv((c - tm.counter_offset) * tm.rate[2], tm.rate[1])

----------------------------------------------------------------------------
(* JlsV2.close and JlsV2.open.                                             *)

\* The outcome of a call: what it returned or raised.
ReturnNone == [kind |-> "return_none"]
Raise(exc) == [kind |-> "raise", exc |-> exc]

\* close() that closes the Reader and leaves self._jls in place
close_keeps_handle(j, hs) ==
    [jls |-> j,
     handles |-> IF j # None THEN [hs EXCEPT ![Val(j)].closes = @ + 1] ELSE hs,
     calls |-> IF j # None THEN <<[fn |-> "close", handle |-> Val(j)]>> ELSE <<>>]

\* close(): jls, self._jls = self._jls, None; the Reader, if any, is closed
close(j, hs) ==
    [jls |-> None,
     handles |-> IF j # None THEN [hs EXCEPT ![Val(j)].closes = @ + 1] ELSE hs,
     calls |-> IF j # None THEN <<[fn |-> "close", handle |-> Val(j)]>> ELSE <<>>]

\* pubsub.topic_add(topic, Metadata(dtype, brief, default=default))
topic_add(topic, dtype, brief, default) ==
    [topic |-> topic, dtype |-> dtype, brief |-> brief, default |-> default]

\* the body of the loop over jls.sources
OpenSource(acc, source, topic) ==
    LET base == topic \o "/settings/sources/" \o ToString(source.source_id)
        meta == [vendor |-> source.vendor,
                 model |-> source.model,
                 version |-> source.version,
                 serial_number |-> source.serial_number,
                 name |-> source.model \o "-" \o source.serial_number]
    IN  [adds |-> acc.adds \o
                  <<topic_add(base \o "/name", "str", "Source name", source.name),
                    topic_add(base \o "/meta", "obj", "Source metadata", meta)>>,
         source_meta |-> [id \in DOMAIN acc.source_meta \cup {source.source_id} |->
                             IF id = source.source_id THEN meta
                             ELSE acc.source_meta[id]]]

RECURSIVE OpenSources(_, _, _)
OpenSources(acc, sources, topic) ==
    IF sources = <<>> THEN acc
    ELSE OpenSources(OpenSource(acc, Head(sources), topic), Tail(sources), topic)

\* utc_cbk's closure variables before the scan (lines 88-89), with the
\* return value of the latest call and the number of calls
NoUtc == [utc_first |-> None, utc_last |-> None, ret |-> FALSE, visited |-> 0]

\* a callback that takes utc_first from every batch
utc_cbk_moves_first(acc, entries) ==
    [utc_first |-> Some(entries[1]),
     utc_last |-> Some(Last(entries)),
     ret |-> FALSE,
     visited |-> acc.visited + 1]

\* utc_cbk(entries): keeps the first entry seen and the last entry of this
\* batch, and returns False (no early termination)
utc_cbk(acc, entries) ==
    [utc_first |-> IF acc.utc_first = None THEN Some(entries[1]) ELSE acc.utc_first,
     utc_last |-> Some(Last(entries)),
     ret |-> FALSE,
     visited |-> acc.visited + 1]

\* jls.utc(signal_id, 0, cbk): the decoder visits the batches in order and
\* stops when the callback returns True
RECURSIVE JlsUtc(_, _)
JlsUtc(acc, batches) ==
    IF batches = <<>> \/ acc.ret THEN acc
    ELSE JlsUtc(utc_cbk(acc, Head(batches)), Tail(batches))

\* the TimeMap of a fixed-sample-rate signal after its UTC scan
CalibrateFsr(scan, sample_rate) ==
    LET g == <<SECOND, sample_rate>>            \* time64.SECOND / sample_rate
        utc_first == scan.utc_first
        utc_last == scan.utc_last
    IN  IF utc_first = None
        THEN update(0, 0, <<g[2], g[1]>>)       \* 1.0 / g
        ELSE IF Val(utc_last)[1] = Val(utc_first)[1]
        THEN update(Val(utc_first)[1], Val(utc_first)[2], g)
        ELSE LET d_utc == Val(utc_last)[2] - Val(utc_first)[2]
                 d_sample == Val(utc_last)[1] - Val(utc_first)[1]
             IN  update(Val(utc_first)[1], Val(utc_first)[2], <<d_sample, d_utc>>)

\* the skip placed after the UTC scan of a fixed-sample-rate signal
SkipAfterScan(acc, signal) ==
    IF signal.signal_type = "FSR"
    THEN [acc EXCEPT !.scans = Append(@, [signal_id |-> signal.signal_id,
                                          batches |-> Len(signal.utc),
                                          visited |-> Len(signal.utc)])]
    ELSE acc

\* line 86: continue
Skip(acc, signal) == acc                     \* unsupported by UI, skip

\* the body of the loop over jls.signals
OpenSignal(acc, signal, source_meta, topic) ==
    IF signal.name \notin DOMAIN TO_UI_SIGNAL_NAME
    THEN Skip(acc, signal)
    ELSE
    LET fsr == signal.signal_type = "FSR"
        scan == JlsUtc(NoUtc, signal.utc)
        time_map == IF fsr THEN CalibrateFsr(scan, signal.sample_rate) ELSE TimeMap
        signal_meta == source_meta[signal.source_id]
        source_name == signal_meta.name
        signal_subname == TO_UI_SIGNAL_NAME[signal.name]
        signal_name == source_name \o "." \o signal_subname
        base == topic \o "/settings/signals/" \o signal_name
        sample_start == 0
        sample_end == signal.length - 1
        range_meta ==
            [utc |-> <<counter_to_time64(time_map, sample_start),
                       counter_to_time64(time_map, sample_end)>>,
             samples |-> [start |-> sample_start, end |-> sample_end,
                          length |-> signal.length],
             sample_rate |-> signal.sample_rate]
        record == [signal_id |-> signal.signal_id,
                   sample_rate |-> signal.sample_rate,
                   field |-> signal_subname,
                   units |-> signal.units,
                   data_type |-> data_type_as_str(signal.data_type),
                   length |-> signal.length,
                   time_map |-> time_map]
    IN  [signals |-> [n \in DOMAIN acc.signals \cup {signal_name} |->
                         IF n = signal_name THEN record ELSE acc.signals[n]],
         adds |-> acc.adds \o
                  <<topic_add(base \o "/name", "str", "Signal name", signal.name),
                    topic_add(base \o "/meta", "obj", "Signal metadata", signal_meta),
                    topic_add(base \o "/range", "obj", "Signal range", range_meta)>>,
         scans |-> IF fsr
                   THEN Append(acc.scans, [signal_id |-> signal.signal_id,
                                           batches |-> Len(signal.utc),
                                           visited |-> scan.visited])
                   ELSE acc.scans]

RECURSIVE OpenSignals(_, _, _, _)
OpenSignals(acc, sigs, source_meta, topic) ==
    IF sigs = <<>> THEN acc
    ELSE OpenSignals(OpenSignal(acc, Head(sigs), source_meta, topic),
                     Tail(sigs), source_meta, topic)

\* open(pubsub, topic) when Reader(self._path) succeeds and finds file f
open(j, sigs, hs, f, topic) ==
    LET c == IF j # None THEN close(j, hs)
             ELSE [jls |-> j, handles |-> hs, calls |-> <<>>]
        src == OpenSources([adds |-> <<>>, source_meta |-> [id \in {} |-> 0]],
                           f.sources, topic)
        r == OpenSignals([signals |-> sigs, adds |-> src.adds, scans |-> <<>>],
                         f.signals, src.source_meta, topic)
    IN  [jls |-> Some(Len(hs) + 1),
         handles |-> Append(c.handles, [file |-> f, closes |-> 0]),
         signals |-> r.signals,
         adds |-> r.adds,
         scans |-> r.scans,
         calls |-> c.calls]

\* the topic prefix the caller passes to open
Topics == {"jls"}

NoReq == [signal_id |-> "", time_type |-> "", start |-> 0, end |-> None,
          length |-> None, rsp_id |-> None]

\* no scan in progress
UtcIdle == utc_scan = [batches |-> <<>>, todo |-> <<>>, acc |-> NoUtc]

\* the state after MemoryWidget(): MemSet.__init__ and MemoryWidget.__init__,
\* nothing subscribed, the topic holding the buffer size of the application
WidgetInit ==
    /\ sizes = <<Whole(0), Whole(0), Whole(0), Whole(1)>>
    /\ _drag = None
    /\ _x_pos = 0
    /\ _width = 1
    /\ _base = 0
    /\ _size = 0
    /\ subscribed = FALSE
    /\ retained = 1
    /\ pending = <<>>
    /\ event = [op |-> "__init__", button |-> "", calls |-> <<>>, published |-> None]

\* the state after JlsV2(path, pubsub, topic): __init__ ends with open
Init ==
    /\ \E f \in Files, topic \in Topics :
        LET o == open(None, [n \in {} |-> 0], <<>>, f, topic)
        IN  /\ jls = o.jls
            /\ signals = o.signals
            /\ handles = o.handles
            /\ adds = o.adds
            /\ scans = o.scans
            /\ last = [op |-> "open", req |-> NoReq, out |-> ReturnNone,
                       calls |-> o.calls]
    /\ UtcIdle
    /\ WidgetInit

Open(f, topic) ==
    /\ Len(handles) < MaxOpens
    /\ LET o == open(jls, signals, handles, f, topic)
       IN  /\ jls' = o.jls
           /\ signals' = o.signals
           /\ handles' = o.handles
           /\ adds' = o.adds
           /\ scans' = o.scans
           /\ last' = [op |-> "open", req |-> NoReq, out |-> ReturnNone,
                       calls |-> o.calls]
    /\ UNCHANGED <<utc_scan, widgetVars>>

\* a failed open that has not closed the earlier handle
OpenFailKeepsHandle ==
    /\ last' = [op |-> "open", req |-> NoReq, out |-> Raise("OpenFailed"),
                calls |-> <<>>]
    /\ adds' = <<>>
    /\ scans' = <<>>
    /\ UNCHANGED <<jls, handles, signals, utc_scan, widgetVars>>

\* open(pubsub, topic) when Reader(self._path) raises: the earlier handle is
\* already closed and nothing after line 66 runs
OpenFail ==
    /\ LET c == IF jls # None THEN close(jls, handles)
                ELSE [jls |-> jls, handles |-> handles, calls |-> <<>>]
       IN  /\ jls' = c.jls
           /\ handles' = c.handles
           /\ last' = [op |-> "open", req |-> NoReq, out |-> Raise("OpenFailed"),
                       calls |-> c.calls]
    /\ adds' = <<>>
    /\ scans' = <<>>
    /\ UNCHANGED <<signals, utc_scan, widgetVars>>

Close ==
    /\ LET c == close(jls, handles)
       IN  /\ jls' = c.jls
           /\ handles' = c.handles
           /\ last' = [op |-> "close", req |-> NoReq, out |-> ReturnNone,
                       calls |-> c.calls]
    /\ UNCHANGED <<signals, adds, scans, utc_scan, widgetVars>>

----------------------------------------------------------------------------
(* JlsV2.process.                                                          *)

\* self._jls.fsr(signal_id, start, length)
fsr(signal_id, start, length) ==
    [fn |-> "fsr", signal_id |-> signal_id, start |-> start, increment |-> 1,
     length |-> length]

\* self._jls.fsr_statistics(signal_id, start, increment, length)
fsr_statistics(signal_id, start, increment, length) ==
    [fn |-> "fsr_statistics", signal_id |-> signal_id, start |-> start,
     increment |-> increment, length |-> length]

\* Python truthiness of an optional integer
Truthy(x) == x # None /\ Val(x) # 0

\* lines 180-211: the response built around the fetched data.  length is
\* the (optional) value of the local variable at line 180.
Response(req, signal, start, increment, length, response_type, data_type, data) ==
    IF length = None
    THEN [out |-> Raise("TypeError"), calls |-> <<data>>]   \* increment * None
    ELSE
    LET sample_id_end == start + increment * Val(length) - 1
        time_map == signal.time_map
        info == [version |-> 1,
                 field |-> signal.field,
                 units |-> signal.units,
                 time_range_utc |->
                     [start |-> counter_to_time64(time_map, start),
                      end |-> counter_to_time64(time_map, sample_id_end),
                      length |-> Val(length)],
                 time_range_samples |->
                     [start |-> start, end |-> sample_id_end, length |-> Val(length)],
                 time_map |->
                     [offset_time |-> time_map.time_offset,
                      offset_counter |-> time_map.counter_offset,
                      counter_rate |-> signal.sample_rate]]
    IN  [out |-> [kind |-> "response",
                  version |-> 1,
                  rsp_id |-> req.rsp_id,
                  info |-> info,
                  response_type |-> response_type,
                  data |-> data,
                  data_type |-> data_type],
         calls |-> <<data>>]

\* the summary strategy fetching the recomputed number of windows while
\* reporting the requested length
SummaryKeepsLength(req, signal, start, interval, length, numpy) ==
    LET increment == IF PyFloorDiv(interval, length) = 0 THEN 1
                     ELSE PyFloorDiv(interval, length)
        data == fsr_statistics(signal.signal_id, start, increment,
                               PyFloorDiv(interval, increment))
    IN  {Response(req, signal, start, increment, Some(length), "summary", "f32", data)}

\* the summary strategy rounding the number of windows up, to reach the end
SummaryRoundsLengthUp(req, signal, start, interval, length, numpy) ==
    LET increment == IF PyFloorDiv(interval, length) = 0 THEN 1
                     ELSE PyFloorDiv(interval, length)
        len == 0 - PyFloorDiv(0 - interval, increment)
    IN  {Response(req, signal, start, increment, Some(len), "summary", "f32",
                  fsr_statistics(signal.signal_id, start, increment, len))}

\* the summary strategy with half the increment, interval // (2 * length)
SummaryHalvesIncrement(req, signal, start, interval, length, numpy) ==
    LET increment == IF PyFloorDiv(interval, 2 * length) = 0 THEN 1
                     ELSE PyFloorDiv(interval, 2 * length)
        len == PyFloorDiv(interval, increment)
    IN  {Response(req, signal, start, increment, Some(len), "summary", "f32",
                  fsr_statistics(signal.signal_id, start, increment, len))}

\* lines 168-175: the summary strategy.  interval // increment with
\* increment = 0 raises ZeroDivisionError on Python integers; on numpy
\* integers (the utc domain) it yields 0 with a warning, which a warning
\* filter may turn into an exception.
Summary(req, signal, start, interval, length, numpy) ==
    LET signal_id == signal.signal_id
        increment == PyFloorDiv(interval, length)
        done(len) == Response(req, signal, start, increment, Some(len), "summary", "f32",
                              fsr_statistics(signal_id, start, increment, len))
        zero == [out |-> Raise("ZeroDivisionError"), calls |-> <<>>]
    IN  IF increment # 0 THEN {done(PyFloorDiv(interval, increment))}
        ELSE IF numpy THEN {done(0), zero}
        ELSE {zero}

\* the guard of the silent no-op, off by one
IntervalBelowMinusOne(interval) == interval < -1

\* line 160: the guard of the silent no-op
IntervalIsNegative(interval) == interval < 0

\* the summary threshold with < in place of <=
BelowSummaryThreshold(length, interval) == length < PyFloorDiv(interval, 2)

\* the summary threshold without the division by two
WithinWholeInterval(length, interval) == length <= interval

\* line 168: length <= (interval // 2)
WithinSummaryThreshold(length, interval) == length <= PyFloorDiv(interval, 2)

\* lines 160-179: the strategy selection, on start, end already in the sample domain
Strategy(req, signal, start, end, interval, numpy) ==
    LET signal_id == signal.signal_id
        length == req.length
        raw(len, count) == Response(req, signal, start, 1, len, "samples",
                                    signal.data_type, fsr(signal_id, start, count))
    IN  IF IntervalIsNegative(interval) THEN {[out |-> ReturnNone, calls |-> <<>>]}
        ELSE IF end = None THEN {raw(length, length)}
        ELSE IF length = None THEN {raw(length, interval)}
        ELSE IF Truthy(length) /\ Truthy(end)
                /\ WithinSummaryThreshold(Val(length), interval)
        THEN Summary(req, signal, start, interval, Val(length), numpy)
        ELSE {raw(Some(interval), interval)}

\* process with the signal lookup ahead of the test for an open handle
process_lookup_first(j, sigs, req) ==
    IF req.signal_id \notin DOMAIN sigs
    THEN {[out |-> Raise("KeyError"), calls |-> <<>>]}
    ELSE {[out |-> ReturnNone, calls |-> <<>>]}

\* process(req): the set of outcomes, each with the decoder fetches made
process(j, sigs, req) ==
    IF j = None THEN {[out |-> ReturnNone, calls |-> <<>>]}
    ELSE IF req.signal_id \notin DOMAIN sigs
    THEN {[out |-> Raise("KeyError"), calls |-> <<>>]}
    ELSE
    LET signal == sigs[req.signal_id]
        utc == req.time_type = "utc"
        time_map == signal.time_map
    IN  IF req.end = None
        THEN \* utc: time64_to_counter(None); samples: None - start
             {[out |-> Raise("TypeError"), calls |-> <<>>]}
        ELSE
        LET start == IF utc THEN time64_to_counter(time_map, req.start) ELSE req.start
            end == IF utc THEN time64_to_counter(time_map, Val(req.end)) ELSE Val(req.end)
            interval == end - start + 1
        IN  Strategy(req, signal, start, Some(end), interval, utc)

\* the signal names requests use: names the files give rise to, the name an
\* unsupported signal would have, and a name no file gives
ReqSignalIds == {"X1-001.i", "X1-002.v", "X1-001.temperature", "X9-000.i"}

\* the requests of the request-level specification, the spec's two examples,
\* and the spec's boundary case: interval 1000 with lengths 499, 500 and 501
Requests ==
    [signal_id : ReqSignalIds,
     time_type : {"utc", "samples"},
     start : -MaxCounter .. MaxCounter,
     end : {None} \cup {Some(e) : e \in -MaxCounter .. MaxCounter},
     length : {None} \cup {Some(n) : n \in -1 .. MaxLength},
     rsp_id : {Some(1)}]
    \cup
    {[signal_id |-> "X1-001.i", time_type |-> "samples", start |-> 0,
      end |-> Some(9999), length |-> Some(5000), rsp_id |-> None],
     [signal_id |-> "X1-001.i", time_type |-> "samples", start |-> 100,
      end |-> Some(50), length |-> Some(10), rsp_id |-> None]}
    \cup
    {[signal_id |-> "X1-001.i", time_type |-> "samples", start |-> 0,
      end |-> Some(999), length |-> Some(n), rsp_id |-> None] : n \in {499, 500, 501}}

\* the requests of the lifecycle specification: one per strategy and one
\* with a negative interval, for a few names in both time domains
LifeRequests ==
    {[signal_id |-> n, time_type |-> t, start |-> b[1], end |-> b[2],
      length |-> b[3], rsp_id |-> Some(1)] :
        n \in {"X1-001.i", "X1-001.temperature", "X9-000.i"},
        t \in {"utc", "samples"},
        b \in {<<0, Some(3), Some(2)>>, <<0, Some(3), Some(3)>>,
               <<0, Some(3), None>>, <<0, None, Some(2)>>, <<3, Some(1), Some(1)>>}}

Process(req) ==
    /\ \E o \in process(jls, signals, req) :
           last' = [op |-> "process", req |-> req, out |-> o.out, calls |-> o.calls]
    /\ UNCHANGED <<jls, signals, handles, adds, scans, utc_scan, widgetVars>>

Next ==
    \/ \E f \in Files, topic \in Topics : Open(f, topic)
    \/ OpenFail
    \/ Close
    \/ \E req \in LifeRequests : Process(req)

\* The lifecycle of one adapter: any sequence of open, close and process.
Spec == Init /\ [][Next]_vars

----------------------------------------------------------------------------
(* process as a function of the request: an adapter just constructed on    *)
(* any of the files receives one request drawn from Requests.              *)

InitProcess ==
    /\ \E f \in Files, topic \in Topics, req \in Requests :
        LET o == open(None, [n \in {} |-> 0], <<>>, f, topic)
        IN  /\ jls = o.jls
            /\ signals = o.signals
            /\ handles = o.handles
            /\ adds = o.adds
            /\ scans = o.scans
            /\ last = [op |-> "request", req |-> req, out |-> [kind |-> "pending"],
                       calls |-> <<>>]
    /\ UtcIdle
    /\ WidgetInit

ProcessPending ==
    /\ last.op = "request"
    /\ Process(last.req)

NextProcess == ProcessPending

SpecProcess == InitProcess /\ [][NextProcess]_vars

----------------------------------------------------------------------------
(* The UTC scan of one signal, callback by callback: jls.utc delivers the  *)
(* signal's entries to utc_cbk in batches, in order.                       *)

\* decoder entries per signal
MaxEntries == 6

\* the i-th UTC entry of a signal, <<sample_id, utc>>
UtcEntry(i) == <<2 * i, SECOND * i>>

\* the entries lo..hi in batches, a batch ending at each cut and at hi
RECURSIVE SplitEntries(_, _, _)
SplitEntries(lo, hi, cuts) ==
    IF lo > hi THEN <<>>
    ELSE LET stops == (cuts \cap (lo..hi)) \cup {hi}
             stop == CHOOSE c \in stops : \A d \in stops : c <= d
         IN  <<[i \in 1..(stop - lo + 1) |-> UtcEntry(lo + i - 1)]>>
                 \o SplitEntries(stop + 1, hi, cuts)

\* every way the decoder can deliver up to MaxEntries entries: none, or
\* the entries from lo on, in non-empty batches
UtcScans ==
    UNION {UNION {{SplitEntries(lo, lo + n - 1, cuts) : cuts \in SUBSET (lo..(lo + n - 2))}
                  : n \in 0..MaxEntries}
           : lo \in 0..1}

\* no adapter call in progress: the scan runs inside open, before _jls is set
NoAdapter ==
    /\ jls = None
    /\ signals = [n \in {} |-> 0]
    /\ handles = <<>>
    /\ adds = <<>>
    /\ scans = <<>>
    /\ last = [op |-> "open", req |-> NoReq, out |-> [kind |-> "pending"],
               calls |-> <<>>]

\* lines 88-97: utc_first = utc_last = None, then jls.utc(signal_id, 0, utc_cbk)
InitUtc ==
    /\ NoAdapter
    /\ WidgetInit
    /\ \E batches \in UtcScans :
           utc_scan = [batches |-> batches, todo |-> batches, acc |-> NoUtc]

\* the decoder calls utc_cbk with the next batch, unless the callback has
\* asked it to stop
UtcCallback ==
    /\ utc_scan.todo # <<>>
    /\ ~utc_scan.acc.ret
    /\ utc_scan' = [batches |-> utc_scan.batches,
                    todo |-> Tail(utc_scan.todo),
                    acc |-> utc_cbk(utc_scan.acc, Head(utc_scan.todo))]
    /\ UNCHANGED <<adapterVars, widgetVars>>

NextUtc == UtcCallback

SpecUtc == InitUtc /\ [][NextUtc]_vars

----------------------------------------------------------------------------
(* Floats.  A float is a whole number of ticks, FloatTicks ticks to the    *)
(* unit of size: a quotient is rounded to the nearest tick, as a float     *)
(* rounds to the nearest value it can hold, and int() drops the ticks      *)
(* beyond the whole units.                                                 *)

Abs(a) == IF a < 0 THEN 0 - a ELSE a
\* Python's min and max return the first argument on a tie
Min(a, b) == IF b < a THEN b ELSE a
Max(a, b) == IF a < b THEN b ELSE a
\* int(value): truncation towards zero, from ticks to whole units
FInt(a) == IF a >= 0 THEN a \div FloatTicks ELSE 0 - ((0 - a) \div FloatTicks)
\* np.sum(sizes)
FSum(sz) == sz[1] + sz[2] + sz[3] + sz[4]

----------------------------------------------------------------------------
(* MemSet and MemoryWidget.  Sizes are in units of _SZ_MIN bytes.          *)

\* _SZ_MIN, the smallest buffer size a drag can select, in model units
_SZ_MIN == 1
\* psutil.virtual_memory().total
VmTotal == 4
\* MemSet.width(), in pixels
WidgetWidth == 24
\* topic values queued for _on_size
MaxPending == 1
\* the sizes explored: every entry of sizes within -MaxSize..MaxSize units
MaxSize == 4

\* psutil readings: vm.used - my_mem, and the resident size of the process
UsedReadings == {1, 2}
MemReadings == {2}
\* buffer sizes other publishers set on the topic
BufferSizes == {1}
\* event.pos().x() of the mouse events
MouseXs == {0, 14, WidgetWidth}
Buttons == {"left", "right"}

\* the widget as the handlers see it, with the calls made so far by the
\* handler that is running
Widget ==
    [sizes |-> sizes, _drag |-> _drag, _x_pos |-> _x_pos, _width |-> _width,
     _base |-> _base, _size |-> _size, calls |-> <<>>, published |-> None]

\* lines 72-77: np.rint(sizes * (w / total)).astype(np.uint64)
_pixel_boundaries(sz) ==
    LET total == FSum(sz)
    IN  [i \in 1..4 |-> RoundDiv(sz[i] * WidgetWidth, total)]

\* lines 79-104: what paintEvent leaves in _x_pos and _width.  With a
\* negative size or a total that is not positive, the cast to uint64 is
\* undefined and either field may hold any pixel count.
paintEvent(w) ==
    IF FSum(w.sizes) > 0 /\ \A i \in 1..4 : w.sizes[i] >= 0
    THEN LET pixels == _pixel_boundaries(w.sizes)
         IN  {[w EXCEPT !._width = pixels[1] + pixels[2] + pixels[3] + pixels[4],
                        !._x_pos = pixels[1] + pixels[2]]}
    ELSE {[w EXCEPT !._width = px[1], !._x_pos = px[2]] :
              px \in {<<1, 0>>, <<WidgetWidth, 0>>, <<WidgetWidth, WidgetWidth>>}}

\* QWidget.repaint(): paintEvent runs before it returns
repaint(w) == paintEvent(w)

\* a MemSet.update that also writes during a drag
MemSet_update_always(w, base, available, used) ==
    repaint([w EXCEPT !.sizes = <<base, @[2], available, used>>])

\* lines 57-62: MemSet.update(base, available, used)
MemSet_update(w, base, available, used) ==
    IF w._drag = None
    THEN repaint([w EXCEPT !.sizes = <<base, @[2], available, used>>])
    ELSE {w}

\* lines 64-66: MemSet.update_size(size)
update_size(w, size) ==
    IF w._drag = None THEN [w EXCEPT !.sizes[2] = size] ELSE w

\* lines 206-219: MemoryWidget._update(size), for each psutil reading
_update(w, size) ==
    UNION {MemSet_update([w EXCEPT !.calls = Append(@, "_update")],
                         Whole(w._base),
                         Whole(VmTotal - (w._base + used)) - size,
                         Whole(used))
           : used \in UsedReadings}

\* lines 251-256: MemoryWidget._on_size(value)
_on_size(w, value) ==
    _update(update_size([w EXCEPT !._size = FInt(value),
                                  !.calls = Append(@, "_on_size")], value),
            value)

\* lines 68-70: MemSet.show_size(size)
show_size(w, size) == UNION {repaint(v) : v \in _on_size(w, size)}

\* lines 106-107
is_mouse_active(w, x) == Abs(x - w._x_pos) < 10

\* lines 109-125: mouseMoveEvent at pixel x
mouseMoveEvent(w, x) ==
    IF w._drag # None
    THEN LET total == FSum(w.sizes)
             at == RoundDiv(x * total, w._width) - w.sizes[1]
             sz_max == w.sizes[2] + w.sizes[3]
             sz == Max(Whole(_SZ_MIN), Min(at, sz_max))
             dsz == sz - w.sizes[2]
         IN  show_size([w EXCEPT !.sizes = <<@[1], @[2] + dsz, @[3] - dsz, @[4]>>], sz)
    ELSE {w}

\* an abort that ends the drag and keeps the dragged sizes
abort_keeps_sizes(w) ==
    IF w._drag = None THEN {w}
    ELSE {[v EXCEPT !._drag = None] : v \in show_size(w, Val(w._drag)[2])}

\* lines 127-131: MemSet.abort()
abort(w) ==
    IF w._drag = None THEN {w}
    ELSE {[v EXCEPT !.sizes = Val(w._drag), !._drag = None] :
              v \in show_size(w, Val(w._drag)[2])}

\* lines 133-141: mousePressEvent at pixel x
mousePressEvent(w, x, button) ==
    LET pressed ==
            IF button = "left"
            THEN IF w._drag = None /\ is_mouse_active(w, x)
                 THEN {[w EXCEPT !._drag = Some(w.sizes)]}
                 ELSE {w}
            ELSE IF w._drag # None THEN abort(w) ELSE {w}
    IN  UNION {repaint(v) : v \in pressed}

\* lines 247-249: the size setter publishes int(value).  The registry calls
\* the subscriber before publish returns (sync) or queues the value.
size_setter(w, value, sync) ==
    LET sent == [w EXCEPT !.published = Some(FInt(value))]
    IN  IF sync THEN _on_size(sent, Whole(FInt(value))) ELSE {sent}

\* lines 143-151: mouseReleaseEvent
mouseReleaseEvent(w, button, sync) ==
    IF w._drag = None THEN {w}
    ELSE IF button = "left"
         THEN {[v EXCEPT !._drag = None] : v \in size_setter(w, w.sizes[2], sync)}
         ELSE abort(w)

\* lines 226-237: _on_timer, with mem = _mem_proc() and sz = query(_TOPIC);
\* on the first tick the subscription with 'retain' hands the retained
\* value to _on_size, inside subscribe (sync) or later
_on_timer(w, mem, sz, sync) ==
    LET first == w._base = 0
        based == IF first
                 THEN [w EXCEPT !._base = IF mem > sz THEN mem - sz ELSE mem]
                 ELSE w
        subscribed_w == IF first /\ sync THEN _on_size(based, Whole(sz)) ELSE {based}
    IN  UNION {IF v._drag = None THEN _update(v, Whole(v._size)) ELSE {v}
               : v \in subscribed_w}

\* the widget after a handler: its fields, and the handler's record
Becomes(v, op, button) ==
    /\ \A i \in 1..4 : Abs(v.sizes[i]) <= Whole(MaxSize)
    /\ sizes' = v.sizes
    /\ _drag' = v._drag
    /\ _x_pos' = v._x_pos
    /\ _width' = v._width
    /\ _base' = v._base
    /\ _size' = v._size
    /\ event' = [op |-> op, button |-> button, calls |-> v.calls,
                 published |-> v.published]

\* the state after MemoryWidget() and on_pubsub_register()
InitMem ==
    /\ NoAdapter
    /\ UtcIdle
    /\ WidgetInit

\* the timer fires
Timer ==
    \E mem \in MemReadings, sync \in BOOLEAN :
        /\ sync \/ _base # 0 \/ Len(pending) < MaxPending
        /\ \E v \in _on_timer(Widget, mem, retained, sync) : Becomes(v, "_on_timer", "")
        /\ subscribed' = TRUE
        /\ pending' = IF _base = 0 /\ ~sync THEN Append(pending, retained) ELSE pending
        /\ UNCHANGED <<retained, adapterVars, utc_scan>>

\* the registry delivers a queued topic value to _on_size
Deliver ==
    /\ pending # <<>>
    /\ \E v \in _on_size(Widget, Whole(Head(pending))) : Becomes(v, "_on_size", "")
    /\ pending' = Tail(pending)
    /\ UNCHANGED <<subscribed, retained, adapterVars, utc_scan>>

\* another publisher sets the buffer size
ExternalPublish(value) ==
    /\ Len(pending) < MaxPending
    /\ retained' = value
    /\ pending' = IF subscribed THEN Append(pending, value) ELSE pending
    /\ event' = [op |-> "publish", button |-> "", calls |-> <<>>, published |-> None]
    /\ UNCHANGED <<sizes, _drag, _x_pos, _width, _base, _size, subscribed,
                   adapterVars, utc_scan>>

\* Qt repaints the bar
Paint ==
    /\ \E v \in paintEvent(Widget) : Becomes(v, "paintEvent", "")
    /\ UNCHANGED <<subscribed, retained, pending, adapterVars, utc_scan>>

MouseMove(x) ==
    /\ \E v \in mouseMoveEvent(Widget, x) : Becomes(v, "mouseMoveEvent", "")
    /\ UNCHANGED <<subscribed, retained, pending, adapterVars, utc_scan>>

MousePress(x, button) ==
    /\ \E v \in mousePressEvent(Widget, x, button) : Becomes(v, "mousePressEvent", button)
    /\ UNCHANGED <<subscribed, retained, pending, adapterVars, utc_scan>>

MouseRelease(button) ==
    \E sync \in BOOLEAN :
        /\ sync \/ Len(pending) < MaxPending
        /\ \E v \in mouseReleaseEvent(Widget, button, sync) :
               /\ Becomes(v, "mouseReleaseEvent", button)
               /\ retained' = IF v.published # None THEN Val(v.published) ELSE retained
               /\ pending' = IF v.published # None /\ subscribed /\ ~sync
                             THEN Append(pending, Val(v.published))
                             ELSE pending
        /\ UNCHANGED <<subscribed, adapterVars, utc_scan>>

NextMem ==
    \/ Timer
    \/ Deliver
    \/ \E value \in BufferSizes : ExternalPublish(value)
    \/ Paint
    \/ \E x \in MouseXs : MouseMove(x)
    \/ \E x \in MouseXs, button \in Buttons : MousePress(x, button)
    \/ \E button \in Buttons : MouseRelease(button)

\* The memory widget under any interleaving of timer ticks, topic values
\* and mouse events.
SpecMem == InitMem /\ [][NextMem]_vars

----------------------------------------------------------------------------
(* Properties of process.                                                  *)

Processed == last.op = "process"
ReqKnown == last.req.signal_id \in DOMAIN signals
ReqSignal == signals[last.req.signal_id]
IsResponse == last.out.kind = "response"

\* a request bound in the sample domain, as process computes it
ReqCounter(x) ==
    IF last.req.time_type = "utc" THEN time64_to_counter(ReqSignal.time_map, x) ELSE x
ReqStart == ReqCounter(last.req.start)
ReqEnd == ReqCounter(Val(last.req.end))
ReqInterval == ReqEnd - ReqStart + 1

\* C1: whenever no decoder handle is open, process returns None for any
\* request, also one naming an unknown signal: it raises nothing and makes
\* no raw or summary fetch.
C1_ProcessClosedReturnsNone ==
    (Processed /\ jls = None) => (last.out = ReturnNone /\ last.calls = <<>>)

\* C1 witness: a request naming an unknown signal was processed with no
\* handle open, after a handle had been closed.
C1_Witness ==
    /\ Processed
    /\ jls = None
    /\ last.req.signal_id \notin DOMAIN signals
    /\ \E h \in DOMAIN handles : handles[h].closes > 0

\* C2: on an open file, for a known signal and every start and end (end = 0
\* included), each present nonzero length <= interval // 2 gets exactly one
\* summary fetch with increment = interval // length and interval // increment
\* windows, no raw fetch, and a 'summary' response of data type 'f32'.
\* Stated here for the positive lengths among them.
C2_SummaryForEveryEnd ==
    (/\ Processed
     /\ jls # None
     /\ ReqKnown
     /\ last.req.end # None
     /\ last.req.length # None
     /\ Val(last.req.length) > 0
     /\ Val(last.req.length) <= PyFloorDiv(ReqInterval, 2))
    => LET increment == PyFloorDiv(ReqInterval, Val(last.req.length))
       IN  /\ IsResponse
           /\ last.out.response_type = "summary"
           /\ last.out.data_type = "f32"
           /\ last.calls = <<fsr_statistics(ReqSignal.signal_id, ReqStart, increment,
                                            PyFloorDiv(ReqInterval, increment))>>

\* C3: in every response, info.time_range_utc.length and
\* info.time_range_samples.length are equal, and equal to the number of
\* elements the one decoder fetch of that call asked for.
C3_LengthsEqualFetched ==
    IsResponse =>
        /\ last.out.info.time_range_utc.length = last.out.info.time_range_samples.length
        /\ Len(last.calls) = 1
        /\ last.calls[1].length = last.out.info.time_range_samples.length
        /\ last.out.data = last.calls[1]

\* C3 witness: a summary response whose length differs from the requested length.
C3_Witness ==
    /\ IsResponse
    /\ last.out.response_type = "summary"
    /\ last.out.info.time_range_samples.length # Val(last.req.length)
    /\ last.calls[1].length = last.out.info.time_range_samples.length

\* C4: a request for a known signal on an open file, with start and end
\* present and a negative interval, in either time domain, gets no response,
\* no exception and no decoder fetch.
C4_NegativeIntervalNoResponse ==
    (/\ Processed
     /\ jls # None
     /\ ReqKnown
     /\ last.req.end # None
     /\ ReqInterval < 0)
    => (last.out = ReturnNone /\ last.calls = <<>>)

\* C4 witness: the spec's example, start=100 and end=50 in the samples domain.
C4_Witness ==
    /\ Processed
    /\ jls # None
    /\ ReqKnown
    /\ last.req.time_type = "samples"
    /\ last.req.start = 100
    /\ last.req.end = Some(50)
    /\ last.out = ReturnNone

\* C5: on an open file, a request with end absent and start and length
\* present makes one raw fetch of `length` samples from `start` and gets a
\* 'samples' response.
C5_EndAbsentFetchesLength ==
    (/\ Processed
     /\ jls # None
     /\ ReqKnown
     /\ last.req.end = None
     /\ last.req.length # None)
    => /\ IsResponse
       /\ last.out.response_type = "samples"
       /\ last.calls = <<fsr(ReqSignal.signal_id, ReqStart, Val(last.req.length))>>

\* C6: on an open file, a request with length absent, start and end present
\* and interval >= 0 makes one raw fetch of `interval` samples from `start`
\* and gets a 'samples' response whose sample range is start..end.
C6_LengthAbsentFetchesInterval ==
    (/\ Processed
     /\ jls # None
     /\ ReqKnown
     /\ last.req.end # None
     /\ last.req.length = None
     /\ ReqInterval >= 0)
    => /\ IsResponse
       /\ last.out.response_type = "samples"
       /\ last.out.info.time_range_samples.start = ReqStart
       /\ last.out.info.time_range_samples.end = ReqEnd
       /\ last.calls = <<fsr(ReqSignal.signal_id, ReqStart, ReqInterval)>>

----------------------------------------------------------------------------
(* Properties of open and close.                                           *)

\* the latest call was an open that returned: a Reader is open on OpenedFile
JustOpened == last.op = "open" /\ last.out = ReturnNone
OpenedFile == handles[Val(jls)].file

Accepted(sig) == sig.name \in DOMAIN TO_UI_SIGNAL_NAME
SourceName(f, sig) ==
    LET src == CHOOSE k \in DOMAIN f.sources : f.sources[k].source_id = sig.source_id
    IN  f.sources[src].model \o "-" \o f.sources[src].serial_number
UiName(f, sig) == SourceName(f, sig) \o "." \o TO_UI_SIGNAL_NAME[sig.name]
\* the name an unsupported signal would have had
DerivedName(f, sig) == SourceName(f, sig) \o "." \o sig.name

\* the first and the last UTC entry of a signal, <<counter, time>>
FirstEntry(sig) == sig.utc[1][1]
LastEntry(sig) == Last(Last(sig.utc))

\* the accepted fixed-rate signals of the opened file that have UTC entries
\* and whose record is the one kept under their name
Calibrated(f) ==
    {k \in DOMAIN f.signals :
        /\ Accepted(f.signals[k])
        /\ f.signals[k].signal_type = "FSR"
        /\ f.signals[k].utc # <<>>
        /\ signals[UiName(f, f.signals[k])].signal_id = f.signals[k].signal_id}

\* C7: after open, a fixed-rate signal whose first and last UTC entries share
\* a counter has time_offset = first.time, counter_offset = first.counter and
\* rate = 1 / sample_period = sample_rate / SECOND.
C7_SameCounterCalibration ==
    JustOpened =>
        \A k \in Calibrated(OpenedFile) :
            LET sig == OpenedFile.signals[k]
                tm == signals[UiName(OpenedFile, sig)].time_map
            IN  FirstEntry(sig)[1] = LastEntry(sig)[1] =>
                    /\ tm.time_offset = FirstEntry(sig)[2]
                    /\ tm.counter_offset = FirstEntry(sig)[1]
                    /\ tm.rate[1] * SECOND = tm.rate[2] * sig.sample_rate

\* C8: after open, a fixed-rate signal whose first and last UTC entries have
\* different counters has rate = (last.counter - first.counter) /
\* (last.time - first.time), time_offset = first.time and
\* counter_offset = first.counter.
C8_TwoPointCalibration ==
    JustOpened =>
        \A k \in Calibrated(OpenedFile) :
            LET sig == OpenedFile.signals[k]
                tm == signals[UiName(OpenedFile, sig)].time_map
            IN  FirstEntry(sig)[1] # LastEntry(sig)[1] =>
                    /\ tm.time_offset = FirstEntry(sig)[2]
                    /\ tm.counter_offset = FirstEntry(sig)[1]
                    /\ tm.rate[1] * (LastEntry(sig)[2] - FirstEntry(sig)[2])
                        = tm.rate[2] * (LastEntry(sig)[1] - FirstEntry(sig)[1])

\* the names the unsupported signals of the files would have had
UnsupportedNames ==
    UNION {{DerivedName(f, f.signals[k]) :
               k \in {i \in DOMAIN f.signals : ~Accepted(f.signals[i])}} :
           f \in Files}

\* C9: a signal whose on-disk name is not in the field-name table gets no
\* record, no topic and no UTC scan at open; its derived name is never in
\* the name-to-record mapping, and a later request for it resolves nothing.
C9_UnsupportedExcluded ==
    /\ UnsupportedNames \cap DOMAIN signals = {}
    /\ JustOpened =>
        LET f == OpenedFile
            accepted == {k \in DOMAIN f.signals : Accepted(f.signals[k])}
        IN  /\ Len(adds) = 2 * Len(f.sources) + 3 * Cardinality(accepted)
            /\ \A k \in DOMAIN f.signals \ accepted :
                   /\ \A i \in DOMAIN scans : scans[i].signal_id # f.signals[k].signal_id
                   /\ \A i \in DOMAIN adds, topic \in Topics, leaf \in {"name", "meta", "range"} :
                          adds[i].topic # topic \o "/settings/signals/"
                                          \o DerivedName(f, f.signals[k]) \o "/" \o leaf
    /\ (Processed /\ jls # None /\ last.req.signal_id \in UnsupportedNames)
        => (last.out = Raise("KeyError") /\ last.calls = <<>>)

\* C9 witness: a request for the name of an unsupported fixed-rate signal
\* that has UTC entries, on the file that holds it.
C9_Witness ==
    /\ Processed
    /\ jls # None
    /\ OpenedFile = FileOneUtc
    /\ last.req.signal_id = "X1-001.temperature"
    /\ last.out = Raise("KeyError")

C10_Inv ==
    /\ \A h \in DOMAIN handles : handles[h].closes <= 1
    /\ Cardinality({h \in DOMAIN handles : handles[h].closes = 0}) <= 1
    /\ jls # None => (Val(jls) \in DOMAIN handles /\ handles[Val(jls)].closes = 0)
    /\ jls = None => \A h \in DOMAIN handles : handles[h].closes = 1

C10_Step ==
    /\ (last'.op = "close" /\ jls = None)
        => (handles' = handles /\ jls' = None /\ last'.out = ReturnNone
            /\ last'.calls = <<>>)
    /\ (last'.op = "open" /\ jls # None)
        => (handles'[Val(jls)].closes = 1
            /\ last'.calls = <<[fn |-> "close", handle |-> Val(jls)]>>)

\* C10: at most one decoder handle is open at a time and it is the one the
\* adapter holds; every handle is closed at most once; open while a handle is
\* open closes that handle; close with nothing open changes nothing and
\* returns normally.
C10_OneHandleAtATime == []C10_Inv /\ [][C10_Step]_vars

\* C10 witness: an open made while handle 1 was open closed it and holds handle 2.
C10_Witness ==
    /\ JustOpened
    /\ last.calls = <<[fn |-> "close", handle |-> 1]>>
    /\ jls = Some(2)
    /\ handles[1].closes = 1
    /\ handles[2].closes = 0

----------------------------------------------------------------------------
(* Properties of close, of a failed open and of the summary threshold.     *)

\* the names the accepted signals of a file are registered under
AcceptedNames(f) ==
    {UiName(f, f.signals[k]) : k \in {i \in DOMAIN f.signals : Accepted(f.signals[i])}}

\* C11: after close the SignalRecord collection is empty, and after an open
\* it holds no record of an earlier, closed file.
C11_CloseClearsRecords ==
    /\ last.op = "close" => DOMAIN signals = {}
    /\ JustOpened => DOMAIN signals \subseteq AcceptedNames(OpenedFile)

FailedOpen == last.op = "open" /\ last.out = Raise("OpenFailed")

C12_Step ==
    (FailedOpen /\ last'.op = "process")
        => (last'.out = ReturnNone /\ last'.calls = <<>>)

\* C12: when Reader() fails in open, the open raises, has registered no
\* topic and scanned nothing, and leaves no handle open (the earlier handle,
\* if any, is closed); a process that follows returns None.
C12_FailedOpenLeavesClosed ==
    /\ [](FailedOpen =>
            /\ jls = None
            /\ adds = <<>>
            /\ scans = <<>>
            /\ \A h \in DOMAIN handles : handles[h].closes = 1)
    /\ [][C12_Step]_vars

\* C12 witness: an open made while handle 1 was open failed.
C12_Witness ==
    /\ FailedOpen
    /\ last.calls = <<[fn |-> "close", handle |-> 1]>>
    /\ jls = None

\* a processed request for a known signal on an open file, with end and
\* length present
Sized ==
    /\ Processed
    /\ jls # None
    /\ ReqKnown
    /\ last.req.end # None
    /\ last.req.length # None

IsSummary == IsResponse /\ last.out.response_type = "summary"
IsSamples == IsResponse /\ last.out.response_type = "samples"

\* C13 as claimed: interval 1000 and length 500 select the raw-sample fetch.
C13_HalfSelectsRaw ==
    (Sized /\ ReqInterval = 1000 /\ last.req.length = Some(500))
        => (IsSamples /\ last.calls[1].fn = "fsr")

\* C13 amended: with interval 1000, lengths 500 and 499 select the summary
\* fetch (increment 2, 500 windows) and length 501 selects the raw fetch of
\* 1000 samples.
C13_HalfSelectsSummary ==
    (Sized /\ ReqInterval = 1000) =>
        /\ last.req.length \in {Some(499), Some(500)} =>
               (/\ IsSummary
                /\ last.calls = <<fsr_statistics(ReqSignal.signal_id, ReqStart, 2, 500)>>)
        /\ last.req.length = Some(501) =>
               (/\ IsSamples
                /\ last.calls = <<fsr(ReqSignal.signal_id, ReqStart, 1000)>>)

\* C13 witness: interval 1000 and length 500 gave a summary.
C13_Witness ==
    /\ Sized
    /\ ReqInterval = 1000
    /\ last.req.length = Some(500)
    /\ IsSummary

----------------------------------------------------------------------------
(* One record per accepted signal.                                         *)

AcceptedIndexes(f) == {i \in DOMAIN f.signals : Accepted(f.signals[i])}

\* C14: after open there is exactly one SignalRecord per accepted signal of
\* the opened file: as many records as accepted signals, distinct accepted
\* signals under distinct UI names, and no topic registered twice.
C14_OneRecordPerSignal ==
    JustOpened =>
        LET f == OpenedFile
        IN  /\ Cardinality(DOMAIN signals) = Cardinality(AcceptedIndexes(f))
            /\ \A a, b \in AcceptedIndexes(f) :
                   a # b => UiName(f, f.signals[a]) # UiName(f, f.signals[b])
            /\ \A i, j \in DOMAIN adds :
                   i # j => adds[i].topic # adds[j].topic

----------------------------------------------------------------------------
(* Properties of the summary strategy.                                     *)

\* the increment and the length of a summary response
RspIncrement == last.calls[1].increment
RspLength == last.out.info.time_range_samples.length
RspEnd == last.out.info.time_range_samples.end

\* a request with end and a positive length that is above the threshold
AboveThreshold ==
    /\ Sized
    /\ Val(last.req.length) > 0
    /\ ReqInterval >= 0
    /\ Val(last.req.length) > PyFloorDiv(ReqInterval, 2)

RawOfInterval ==
    /\ IsSamples
    /\ last.calls = <<fsr(ReqSignal.signal_id, ReqStart, ReqInterval)>>
    /\ RspLength = ReqInterval

\* C15 as claimed: every summary response has increment >= 2 and at most
\* interval // 2 elements; every request above the threshold gets the raw
\* samples of the whole interval.
C15_SummaryReducesByTwo ==
    /\ IsSummary => (RspIncrement >= 2 /\ RspLength <= PyFloorDiv(ReqInterval, 2))
    /\ AboveThreshold => RawOfInterval

\* C15 amended: every summary response to a request with positive length
\* has increment >= 2 and at most interval // 2 elements; every request
\* above the threshold gets the raw samples of the whole interval.
C15_PositiveSummaryReducesByTwo ==
    /\ (IsSummary /\ Val(last.req.length) > 0)
           => (RspIncrement >= 2 /\ RspLength <= PyFloorDiv(ReqInterval, 2))
    /\ AboveThreshold => RawOfInterval

\* C15 witness: a summary at the threshold, increment 2 and interval // 2
\* elements, for a positive length.
C15_Witness ==
    /\ IsSummary
    /\ Val(last.req.length) > 0
    /\ RspIncrement = 2
    /\ RspLength = PyFloorDiv(ReqInterval, 2)

\* C16 as claimed: the windows of a summary response reach the requested
\* end: increment * length >= interval and sample_id_end >= end.
C16_SummaryReachesEnd ==
    IsSummary =>
        /\ RspIncrement * RspLength >= ReqInterval
        /\ RspEnd = ReqStart + RspIncrement * RspLength - 1
        /\ RspEnd >= ReqEnd

\* C16 amended: the windows of a summary response to a request with
\* positive length never pass the requested end and stop less than one
\* window short of it: interval - increment < increment * length <= interval
\* and sample_id_end <= end.
C16_SummaryStopsWithinEnd ==
    (IsSummary /\ Val(last.req.length) > 0) =>
        /\ RspIncrement * RspLength <= ReqInterval
        /\ ReqInterval - RspIncrement < RspIncrement * RspLength
        /\ RspEnd = ReqStart + RspIncrement * RspLength - 1
        /\ RspEnd <= ReqEnd

\* C16 witness: a summary whose windows stop short of the requested end.
C16_Witness ==
    /\ IsSummary
    /\ Val(last.req.length) > 0
    /\ RspIncrement * RspLength < ReqInterval
    /\ RspEnd < ReqEnd

\* C18: in every summary response to a request with positive length L the
\* returned length L' = interval // (interval // L) satisfies L <= L' < 2 * L.
C18_ReturnedLengthBounds ==
    (IsSummary /\ Val(last.req.length) > 0) =>
        LET L == Val(last.req.length)
        IN  /\ RspLength = PyFloorDiv(ReqInterval, PyFloorDiv(ReqInterval, L))
            /\ L <= RspLength
            /\ RspLength < 2 * L

\* C18 witness: a summary that returns more elements than requested.
C18_Witness ==
    /\ IsSummary
    /\ Val(last.req.length) > 0
    /\ RspLength > Val(last.req.length)
    /\ RspLength = PyFloorDiv(ReqInterval, PyFloorDiv(ReqInterval, Val(last.req.length)))

----------------------------------------------------------------------------
(* Properties of the UTC scan.                                             *)

\* the scan is over: every batch delivered, or the callback asked to stop
ScanOver == utc_scan.todo = <<>> \/ utc_scan.acc.ret

C17_Step ==
    /\ utc_scan.acc.utc_first # None
           => utc_scan'.acc.utc_first = utc_scan.acc.utc_first
    /\ utc_scan'.acc.utc_last = Some(Last(Head(utc_scan.todo)))
    /\ ~utc_scan'.acc.ret

C17_Inv ==
    /\ utc_scan.acc.visited = Len(utc_scan.batches) - Len(utc_scan.todo)
    /\ ~utc_scan.acc.ret
    /\ utc_scan.acc.visited = 0
           => (utc_scan.acc.utc_first = None /\ utc_scan.acc.utc_last = None)
    /\ utc_scan.acc.visited > 0 => utc_scan.acc.utc_first = Some(utc_scan.batches[1][1])
    /\ ScanOver =>
           /\ utc_scan.acc.visited = Len(utc_scan.batches)
           /\ utc_scan.batches # <<>>
                  => utc_scan.acc.utc_last = Some(Last(Last(utc_scan.batches)))

\* C17: in the UTC scan utc_first is the first entry of the first batch and
\* never changes once set, utc_last is the last entry of the latest batch
\* (of the last batch when the scan is over), the callback never asks to
\* stop so every batch is visited, and with no batch both stay unset.
C17_ScanKeepsFirstAndLast == []C17_Inv /\ [][C17_Step]_vars

\* C17 witness: a scan of three batches is over, and the first and the last
\* entry differ from the entries in between.
C17_Witness ==
    /\ ScanOver
    /\ Len(utc_scan.batches) = 3
    /\ Len(utc_scan.batches[2]) = 2
    /\ utc_scan.acc.visited = 3
    /\ utc_scan.acc.utc_first = Some(utc_scan.batches[1][1])
    /\ utc_scan.acc.utc_last = Some(Last(utc_scan.batches[3]))

----------------------------------------------------------------------------
(* Properties of the drag.                                                 *)

Dragging == _drag # None

\* how often a handler made the call
Count(calls, fn) == Cardinality({i \in DOMAIN calls : calls[i] = fn})

\* the handlers that reach MemSet.update or MemSet.update_size without
\* moving the handle or ending the drag
Updaters == {"_on_timer", "_on_size", "publish", "paintEvent"}

LeftRelease == event'.op = "mouseReleaseEvent" /\ event'.button = "left"

C19_Step ==
    Dragging =>
        /\ event'.op \in Updaters => (sizes' = sizes /\ _drag' = _drag)
        /\ LeftRelease => sizes' = sizes
        /\ event'.op = "_on_timer"
               => Count(event'.calls, "_update") = Count(event'.calls, "_on_size")
        /\ (sizes' # sizes /\ _drag' # None) => event'.op = "mouseMoveEvent"

\* C19: while a drag is active, timer ticks and deliveries of the size
\* topic leave sizes unchanged (MemSet.update and update_size write
\* nothing), the timer makes no _update call of its own, and sizes changes
\* only through mouseMoveEvent for as long as the drag stays active.
C19_DragFreezesSizes == [][C19_Step]_vars

\* C19 witness: during a drag whose handle has moved, a topic value other
\* than the dragged size reached _on_size, which called _update.
C19_Witness ==
    /\ Dragging
    /\ event.op = "_on_size"
    /\ event.calls = <<"_on_size", "_update">>
    /\ sizes # Val(_drag)
    /\ Whole(_size) # sizes[2]

\* a press or a release of a button other than the left one
RightButton ==
    /\ event'.op \in {"mousePressEvent", "mouseReleaseEvent"}
    /\ event'.button = "right"

\* the drag begins at a left press and holds the sizes of that moment until
\* it ends
DragHoldsPressedSizes ==
    /\ (~Dragging /\ _drag' # None) =>
           /\ event'.op = "mousePressEvent"
           /\ event'.button = "left"
           /\ _drag' = Some(sizes)
           /\ sizes' = sizes
    /\ (Dragging /\ _drag' # None) => _drag' = _drag

\* an abort restores the sizes of the press and publishes nothing
AbortRestores ==
    (Dragging /\ RightButton) =>
        /\ sizes' = Val(_drag)
        /\ _drag' = None
        /\ event'.published = None
        /\ retained' = retained
        /\ pending' = pending

\* the widget published in this step
Publishes == event'.published # None \/ (retained' # retained /\ event'.op # "publish")

PublishedByLeftRelease ==
    /\ Dragging
    /\ LeftRelease
    /\ _drag' = None
    /\ event'.published # None
    /\ retained' = Val(event'.published)

\* C20 as claimed: an abort restores the sizes of the left press, ends the
\* drag and publishes nothing; only a left release during a drag publishes,
\* and the value it publishes is sizes[1].
C20_AbortRestoresPublishesSize ==
    [][/\ DragHoldsPressedSizes
       /\ AbortRestores
       /\ Publishes => (PublishedByLeftRelease
                        /\ Whole(Val(event'.published)) = sizes[2])]_vars

\* C20 amended: an abort restores the sizes of the left press, ends the
\* drag and publishes nothing; only a left release during a drag publishes,
\* and the value it publishes is int(sizes[1]).
C20_AbortRestoresPublishesInt ==
    [][/\ DragHoldsPressedSizes
       /\ AbortRestores
       /\ Publishes => (PublishedByLeftRelease
                        /\ Val(event'.published) = FInt(sizes[2]))]_vars

\* C20 witness: a right-button release has aborted a drag: show_size ran,
\* the drag is over, the sizes differ from the size shown during the drag
\* and nothing was published.
C20_Witness ==
    /\ event.op = "mouseReleaseEvent"
    /\ event.button = "right"
    /\ event.calls = <<"_on_size", "_update">>
    /\ event.published = None
    /\ ~Dragging

====
